---- MODULE Spec2Model ----
(***************************************************************************)
(* A model of the batch pipeline of rtwb02/Algo-trading-models:            *)
(*   clean.py     coercedates, coercenumerics, dropduplicatesandtrim,      *)
(*                handlemissing                                            *)
(*   features.py  processcurrentfiles                                      *)
(*   ingest.py    appendnewinfo                                            *)
(*   norm.py      normalizecurrentagainsttrain                             *)
(*   pred.py      discovercandidatefeatures, trainandselectfeatures,       *)
(*                runpredictions                                           *)
(* Every entry point is a program of its own (each file has its main), so  *)
(* each has its own specification over the shared variables.               *)
(*                                                                         *)
(* Column and file names are strings.  A data frame is a record whose      *)
(* field columns is the list of its column names.  An optional value is a  *)
(* sequence of length at most one: None is <<>>.  A classification         *)
(* accuracy is the number of correct predictions out of EvalRows rows.     *)
(***************************************************************************)
EXTENDS Integers, Sequences, FiniteSets, TLC

VARIABLES
    \* ---- trainandselectfeatures (pred.py 45-79)
    dftrain, dftest, candidatefeatures,
    r, indices, acc,
    bestaccuracy, bestfeatures, bestmodel, bestreporttest,
    pcSel,
    visited,       \* history: the index tuples itertools.combinations yielded
    maxacc,        \* history: highest accuracy of a trained subset, -1 if none
    firstmax,      \* history: the first trained subset that reached maxacc
    \* ---- runpredictions (pred.py 81-166)
    normalizeddir, \* the file names in NORMALIZEDDIR
    trainfiles, currentfiles, fileidx, basename, dfcurrent,
    summaryresults, predictionsdir, log, pcPred,
    attempted,     \* history: the basenames whose loop body was entered
    \* ---- discovercandidatefeatures (pred.py 28-43)
    columns, candidates, pcDisc,
    \* ---- handlemissing (clean.py 33-52)
    df, strategy, cols, pcClean,
    dfbefore,      \* history: the data frame handlemissing was called with
    \* ---- normalizecurrentagainsttrain (norm.py 20-55)
    splitdir,      \* SPLITDIR: train file name -> data frame
    processeddir,  \* CURRENTDIR: processed file name -> data frame
    normalizedout, \* NORMALIZEDDIR: normalized file name -> data frame
    normfiles, normidx, normbase, availablecolstrain, availablecolscurrent,
    scaler, normlog, pcNorm,
    normattempted, \* history: the basenames whose loop body ran
    \* ---- processcurrentfiles (features.py 35-111), appendnewinfo (ingest.py 28-48)
    currentdir,    \* CURRENTDIR: file name -> data frame
    pending,       \* the files listed at line 40 the loop has not reached yet
    featlog, runs, pcFeat,
    rawnames,      \* history: the raw files, there at the start or written by appendnewinfo
    unseen,        \* history: the raw files written since the last run listed CURRENTDIR
    failures       \* history: the number of files whose processing raised

selVars == <<dftrain, dftest, candidatefeatures, r, indices, acc,
             bestaccuracy, bestfeatures, bestmodel, bestreporttest,
             pcSel, visited, maxacc, firstmax>>
predVars == <<normalizeddir, trainfiles, currentfiles, fileidx, basename,
              dfcurrent, summaryresults, predictionsdir, log, pcPred, attempted>>
discVars == <<columns, candidates, pcDisc>>
cleanVars == <<df, strategy, cols, pcClean, dfbefore>>
normVars == <<splitdir, processeddir, normalizedout, normfiles, normidx, normbase,
              availablecolstrain, availablecolscurrent, scaler, normlog, pcNorm,
              normattempted>>
featVars == <<currentdir, pending, featlog, runs, pcFeat, rawnames, unseen, failures>>
vars == <<selVars, predVars, discVars, cleanVars, normVars, featVars>>

----------------------------------------------------------------------------
(* Bounds of the model. *)

\* candidate lists of trainandselectfeatures have 0..MaxCands features
MaxCands == 6
\* rows of an evaluation split in the search: accuracies are 0/EvalRows..1
EvalRows == 2

----------------------------------------------------------------------------
(* Generic helpers. *)

None == <<>>
Some(x) == <<x>>

Range(s) == {s[i] : i \in 1..Len(s)}
Contains(s, x) == \E i \in 1..Len(s) : s[i] = x
Min(a, b) == IF a < b THEN a ELSE b

\* str.endswith
EndsWith(s, suffix) ==
    /\ Len(s) >= Len(suffix)
    /\ SubSeq(s, Len(s) - Len(suffix) + 1, Len(s)) = suffix

\* str.startswith
StartsWith(s, prefix) ==
    /\ Len(s) >= Len(prefix)
    /\ SubSeq(s, 1, Len(prefix)) = prefix

RECURSIVE Replace(_, _)
\* str.replace(old, ""): every occurrence of old, left to right, is removed
Replace(s, old) ==
    IF Len(s) < Len(old) THEN s
    ELSE IF StartsWith(s, old) THEN Replace(SubSeq(s, Len(old) + 1, Len(s)), old)
    ELSE SubSeq(s, 1, 1) \o Replace(SubSeq(s, 2, Len(s)), old)

----------------------------------------------------------------------------
(* config.py *)

TRAINSUFFIX == "Train.csv"
TESTSUFFIX == "Test.csv"
CURRENTNORMSUFFIX == "CurrentNorm.csv"
TARGETCOL == "Target"
CANDIDATEFEATUREPREFIXES == <<"Feature", "Signal", "Metric">>
LAGSUFFIX == "Lag1"
\* Line 49 spells the target column TARGET_COL, line 34 and every use in
\* pred.py spell it TARGETCOL: the text of src/ has lost underscores and the
\* "#" of its comment lines (config.py does not compile from line 9 on, so
\* line 49 is never reached as written).  The module binds one target column
\* name, and the two spellings are read as that name.
TARGET_COL == TARGETCOL
EXCLUDEFEATURES == <<"Date", "Open", "High", "Low", "Close", "Volume", TARGET_COL>>

----------------------------------------------------------------------------
(* pred.py: discovercandidatefeatures *)

\* a bug: no continue after the suffix rule, a column matching both rules
\* is appended twice
DiscoverStepTwice(found, col) ==
    IF Contains(EXCLUDEFEATURES, col) THEN found
    ELSE LET bysuffix == IF EndsWith(col, LAGSUFFIX) THEN Append(found, col) ELSE found
         IN  IF \E p \in 1..Len(CANDIDATEFEATUREPREFIXES) :
                   StartsWith(col, CANDIDATEFEATUREPREFIXES[p])
             THEN Append(bysuffix, col)
             ELSE bysuffix

\* one pass of the loop body for column col, found being the list so far
DiscoverStep(found, col) ==
    IF Contains(EXCLUDEFEATURES, col) THEN found
    ELSE IF EndsWith(col, LAGSUFFIX) THEN Append(found, col)
    ELSE IF \E p \in 1..Len(CANDIDATEFEATUREPREFIXES) :
               StartsWith(col, CANDIDATEFEATUREPREFIXES[p])
         THEN Append(found, col)
    ELSE found

RECURSIVE DiscoverFrom(_, _, _)
DiscoverFrom(names, i, found) ==
    IF i > Len(names) THEN found
    ELSE DiscoverFrom(names, i + 1, DiscoverStep(found, names[i]))

discovercandidatefeatures(names) == DiscoverFrom(names, 1, <<>>)

----------------------------------------------------------------------------
(* pred.py: trainandselectfeatures, one action per subset visited *)

AccLevels == 0..EvalRows

\* the columns a search input may hold
FeaturePool == <<"SignalX", "FeatureA", "FeatureALag1", "FeatureB",
                 "MetricM", "FeatureBLag1", "FeatureC", "FeatureCLag1">>
BaseColumns == <<"Date", "Close", TARGETCOL>>

Frame(names) == [columns |-> names]
Without(s, drop) == SelectSeq(s, LAMBDA c : c \notin drop)

\* a bug: the sizes stop one short, at 4
RStopShort(cands) == Min(5, Len(cands) + 1)

\* range(2, min(6, len(candidatefeatures) + 1)): its exclusive upper end
RStop(cands) == Min(6, Len(cands) + 1)

\* itertools.combinations: the first index tuple of size k
FirstIndices(k) == [j \in 1..k |-> j]

\* itertools.combinations: positions that can still advance
Movable(ind, n) == {i \in 1..Len(ind) : ind[i] # i + n - Len(ind)}

Largest(S) == CHOOSE i \in S : \A j \in S : j <= i

\* itertools.combinations: the index tuple after ind (some position is movable)
NextIndices(ind, n) ==
    LET i == Largest(Movable(ind, n))
    IN  [j \in 1..Len(ind) |-> IF j < i THEN ind[j] ELSE ind[i] + 1 + (j - i)]

Combo(cands, ind) == [j \in 1..Len(ind) |-> cands[ind[j]]]

\* all(f in df.columns for f in features)
AllIn(features, frame) ==
    \A j \in 1..Len(features) : Contains(frame.columns, features[j])

\* a bug: the evaluation split is not looked at
PresenceTrainOnly(features, train, test) == AllIn(features, train)

\* lines 58-61: the subset is trained only if both splits hold all of it
PresenceOk(features, train, test) == AllIn(features, train) /\ AllIn(features, test)

\* a bug: >= for >, a later tie replaces the retained subset
BetterOrEqual(a, best) == a >= best

\* line 73
Better(a, best) == a > best

\* lines 50-55: the locals are set and the outer loop starts
SelEnter ==
    /\ pcSel = "entry"
    /\ bestaccuracy' = 0
    /\ bestfeatures' = <<>>
    /\ bestmodel' = None
    /\ bestreporttest' = None
    /\ IF 2 < RStop(candidatefeatures)
       THEN /\ r' = 2
            /\ indices' = FirstIndices(2)
            /\ pcSel' = "loop"
       ELSE /\ UNCHANGED <<r, indices>>
            /\ pcSel' = "exit"
    /\ UNCHANGED <<dftrain, dftest, candidatefeatures, acc, visited, maxacc, firstmax>>

\* the loop heads of lines 55-56 after the body ran for indices
SelAdvance ==
    IF Movable(indices, Len(candidatefeatures)) # {}
    THEN /\ indices' = NextIndices(indices, Len(candidatefeatures))
         /\ UNCHANGED r
         /\ pcSel' = "loop"
    ELSE IF r + 1 < RStop(candidatefeatures)
    THEN /\ r' = r + 1
         /\ indices' = FirstIndices(r + 1)
         /\ pcSel' = "loop"
    ELSE /\ UNCHANGED <<r, indices>>
         /\ pcSel' = "exit"

\* lines 57-77: the body for one combination
SelVisit(levels) ==
    /\ pcSel = "loop"
    /\ visited' = Append(visited, indices)
    /\ LET features == Combo(candidatefeatures, indices)
       IN  \/ /\ ~PresenceOk(features, dftrain, dftest)
              /\ UNCHANGED <<acc, bestaccuracy, bestfeatures, bestmodel,
                             bestreporttest, maxacc, firstmax>>
           \/ /\ PresenceOk(features, dftrain, dftest)
              /\ \E a \in levels :
                   /\ acc' = a
                   /\ IF Better(a, bestaccuracy)
                      THEN /\ bestaccuracy' = a
                           /\ bestfeatures' = features
                           /\ bestmodel' = Some([features |-> features])
                           /\ bestreporttest' = Some([accuracy |-> a])
                      ELSE UNCHANGED <<bestaccuracy, bestfeatures, bestmodel,
                                       bestreporttest>>
                   /\ IF a > maxacc
                      THEN maxacc' = a /\ firstmax' = features
                      ELSE UNCHANGED <<maxacc, firstmax>>
    /\ SelAdvance
    /\ UNCHANGED <<dftrain, dftest, candidatefeatures>>

\* line 79
SelReturn ==
    /\ pcSel = "exit"
    /\ pcSel' = "returned"
    /\ UNCHANGED <<dftrain, dftest, candidatefeatures, r, indices, acc,
                   bestaccuracy, bestfeatures, bestmodel, bestreporttest,
                   visited, maxacc, firstmax>>

\* the locals before a call
SelIdle ==
    /\ r = 0 /\ indices = <<>> /\ acc = 0
    /\ bestaccuracy = 0 /\ bestfeatures = <<>>
    /\ bestmodel = None /\ bestreporttest = None
    /\ visited = <<>> /\ maxacc = -1 /\ firstmax = <<>>

PredIdle ==
    /\ normalizeddir = {} /\ trainfiles = <<>> /\ currentfiles = <<>>
    /\ fileidx = 0 /\ basename = "" /\ dfcurrent = None
    /\ summaryresults = <<>> /\ predictionsdir = {} /\ log = <<>>
    /\ pcPred = "none" /\ attempted = <<>>

DiscIdle == columns = <<>> /\ candidates = <<>> /\ pcDisc = "none"

CleanIdle ==
    /\ df = <<>> /\ strategy = "" /\ cols = None
    /\ pcClean = "none" /\ dfbefore = <<>>

NormIdle ==
    /\ splitdir = <<>> /\ processeddir = <<>> /\ normalizedout = <<>>
    /\ normfiles = <<>> /\ normidx = 0 /\ normbase = ""
    /\ availablecolstrain = <<>> /\ availablecolscurrent = <<>>
    /\ scaler = None /\ normlog = <<>> /\ pcNorm = "none" /\ normattempted = <<>>

FeatIdle ==
    /\ currentdir = <<>> /\ pending = {} /\ featlog = <<>> /\ runs = 0
    /\ pcFeat = "none" /\ rawnames = {} /\ unseen = {} /\ failures = 0

\* no call of trainandselectfeatures is under way
NoSearch ==
    /\ dftrain = [columns |-> <<>>] /\ dftest = [columns |-> <<>>]
    /\ candidatefeatures = <<>> /\ pcSel = "idle"
    /\ SelIdle

\* The inputs of a call: any candidate list, and splits that hold every
\* candidate, or lack the first one, or the last one, or lack them all.
Drops(cands) ==
    {{}} \cup {{cands[i]} : i \in {1, Len(cands)} \cap 1..Len(cands)} \cup {Range(cands)}

InitSearch ==
    /\ \E n \in 0..MaxCands :
         /\ candidatefeatures = SubSeq(FeaturePool, 1, n)
         /\ \E d1 \in {{}, Range(candidatefeatures)}, d2 \in Drops(candidatefeatures) :
              /\ dftrain = Frame(BaseColumns \o Without(candidatefeatures, d1))
              /\ dftest = Frame(BaseColumns \o Without(candidatefeatures, d2))
    /\ pcSel = "entry"
    /\ SelIdle
    /\ PredIdle /\ DiscIdle /\ CleanIdle /\ NormIdle /\ FeatIdle

otherThanSel == <<predVars, discVars, cleanVars, normVars, featVars>>

NextSearch ==
    \/ SelEnter /\ UNCHANGED otherThanSel
    \/ SelVisit(AccLevels) /\ UNCHANGED otherThanSel
    \/ SelReturn /\ UNCHANGED otherThanSel

SpecSearch == InitSearch /\ [][NextSearch]_vars
SpecSearchFair == SpecSearch /\ WF_vars(NextSearch)

----------------------------------------------------------------------------
(* Claims about trainandselectfeatures. *)

Returned == pcSel = "returned"
SomeValid == maxacc >= 0
LastVisited == Combo(candidatefeatures, visited[Len(visited)])

\* C1: whenever at least one enumerated subset passes the presence check,
\* the returned model is non-empty and the returned accuracy is the maximum
\* accuracy over the subsets that passed, whatever the accuracies are.
C1_ReturnsBest ==
    (Returned /\ SomeValid) =>
        /\ bestmodel # None
        /\ bestreporttest # None
        /\ bestreporttest[1].accuracy = maxacc

\* C2: the retained best is replaced only by a subset whose accuracy is
\* strictly greater than the retained accuracy, and the subset returned is
\* the first one enumerated among those that share its accuracy.
C2_StrictTieBreak ==
    [][ /\ (bestfeatures' # bestfeatures => acc' > bestaccuracy)
        /\ (bestaccuracy' # bestaccuracy => bestaccuracy' > bestaccuracy)
        /\ ((pcSel' = "returned" /\ bestmodel' # None) => bestfeatures' = firstmax')
      ]_vars

\* a later subset tied with the retained one and the earlier one was returned
C2_Witness ==
    /\ Returned
    /\ bestmodel # None
    /\ Len(visited) > 0
    /\ AllIn(LastVisited, dftrain) /\ AllIn(LastVisited, dftest)
    /\ acc = bestaccuracy
    /\ LastVisited # bestfeatures

RECURSIVE Binomial(_, _)
Binomial(n, k) ==
    IF k = 0 THEN 1
    ELSE IF k > n THEN 0
    ELSE Binomial(n - 1, k - 1) + Binomial(n - 1, k)

RECURSIVE CombinationCount(_, _)
\* the number of combinations of n things of sizes 2..top
CombinationCount(n, top) ==
    IF top < 2 THEN 0 ELSE Binomial(n, top) + CombinationCount(n, top - 1)

\* smaller sizes first, then lexicographic by position
Before(a, b) ==
    \/ Len(a) < Len(b)
    \/ /\ Len(a) = Len(b)
       /\ \E i \in 1..Len(a) : a[i] < b[i] /\ \A j \in 1..(i - 1) : a[j] = b[j]

IsCombination(v, n) ==
    /\ Len(v) >= 2 /\ Len(v) <= Min(5, n)
    /\ \A j \in 1..Len(v) : v[j] \in 1..n
    /\ \A j \in 1..(Len(v) - 1) : v[j] < v[j + 1]

EnumerationOrder ==
    /\ \A k \in 1..Len(visited) : IsCombination(visited[k], Len(candidatefeatures))
    /\ \A k \in 1..(Len(visited) - 1) : Before(visited[k], visited[k + 1])
    /\ Len(bestfeatures) # 1 /\ Len(bestfeatures) <= 5
    /\ pcSel \in {"exit", "returned"} =>
         Len(visited) = CombinationCount(Len(candidatefeatures),
                                         Min(5, Len(candidatefeatures)))

\* C3: the search visits exactly the combinations of the candidate list of
\* every size 2..min(5, n), each once, in increasing size and lexicographic
\* order of positions; no subset of size 1 or above 5 is trained or returned;
\* and the loop terminates.
C3_Enumeration == [] EnumerationOrder /\ <>Returned

\* a search over more than five candidates has returned
C3_Witness ==
    /\ Returned
    /\ Len(candidatefeatures) > 5
    /\ Len(visited) >= CombinationCount(6, 5)
    /\ Len(bestfeatures) >= 2

----------------------------------------------------------------------------
(* pred.py: runpredictions.  One action lists the directory, one runs the   *)
(* loop body up to the call of trainandselectfeatures, the search runs by   *)
(* its own actions, one action runs the rest of the body, one prints the    *)
(* summary.  pcSel is "idle" when the body read no split, "nocall" when it  *)
(* read them and did not call the search.                                   *)

\* the datasets of a run are the first 0..MaxDatasets of DatasetNames
MaxDatasets == 2

DatasetNames == <<"DatasetA", "DatasetB", "DatasetC", "DatasetD">>

RECURSIVE ListDir(_)
\* os.listdir: the names come in arbitrary order; the lists it may return
ListDir(dir) ==
    IF dir = {} THEN {<<>>}
    ELSE UNION {{<<f>> \o rest : rest \in ListDir(dir \ {f})} : f \in dir}

\* line 82: the lists trainfiles may be.  Filtering a listing of dir keeps
\* the train files in the order of the listing, which is any order of them.
TrainFilesOf(dir) == ListDir({f \in dir : EndsWith(f, TRAINSUFFIX)})

\* lines 85-88: basename -> path of its normalized current file; the
\* dictionaries currentfiles may be.  When two names give one key the
\* dictionary keeps the one the listing gives last, which is any of them.
CurrentFilesOf(dir) ==
    LET names == {f \in dir : EndsWith(f, CURRENTNORMSUFFIX)}
    IN  {d \in [{Replace(f, CURRENTNORMSUFFIX) : f \in names} -> names] :
            \A b \in DOMAIN d : Replace(d[b], CURRENTNORMSUFFIX) = b}

\* the splits a file of NORMALIZEDDIR may hold
PredFeatures == <<"FeatureA", "FeatureALag1", "SignalX">>
PredBase == <<"Date", "Close">>
FirstFeature == {PredFeatures[1]}
LastFeature == {PredFeatures[Len(PredFeatures)]}
\* a train split: without the target, or with it and the first k features
TrainFrames ==
    {Frame(PredBase \o PredFeatures)}
      \cup {Frame(PredBase \o <<TARGETCOL>> \o SubSeq(PredFeatures, 1, k)) :
                k \in 0..Len(PredFeatures)}
\* a test split: without the target, or with it and all features but one
TestFrames ==
    {Frame(PredBase \o PredFeatures)}
      \cup {Frame(PredBase \o <<TARGETCOL>> \o Without(PredFeatures, d)) :
                d \in {{}, FirstFeature, LastFeature}}
\* a current split: with or without the target, with or without the last feature
CurrentFrames ==
    {Frame(PredBase \o t \o Without(PredFeatures, d)) :
        t \in {<<>>, <<TARGETCOL>>}, d \in {{}, LastFeature}}
\* the accuracies met in a run of runpredictions: none right, or all right
PredAccLevels == {0, EvalRows}

\* df[col] = ...: a new column goes last, an old one is overwritten
WithColumn(frame, col) ==
    IF Contains(frame.columns, col) THEN frame
    ELSE [frame EXCEPT !.columns = Append(frame.columns, col)]

HasColumn(frame, col) == Contains(frame.columns, col)

RECURSIVE DoubleError(_, _, _, _)
\* The float k / rows is the binary fraction of 53 significant bits nearest
\* to the quotient, ties to the even bit.  Long division of rem by rows, bits
\* significant bits out so far, the last one being last: 1 when the float is
\* above the quotient, -1 when it is below, 0 when it is the quotient.
DoubleError(rem, rows, bits, last) ==
    IF rem = 0 THEN 0
    ELSE IF bits = 53
    THEN IF 2 * rem > rows THEN 1
         ELSE IF 2 * rem < rows THEN -1
         ELSE IF last = 1 THEN 1 ELSE -1
    ELSE LET bit == IF 2 * rem >= rows THEN 1 ELSE 0
         IN  DoubleError(2 * rem - bit * rows, rows,
                         IF bits > 0 \/ bit = 1 THEN bits + 1 ELSE 0, bit)

\* round(k / rows, 4) in ten-thousandths, 0 <= k <= rows: the float k / rows
\* is rounded by its exact value, a half going to the even digit; a quotient
\* that is a decimal half goes where its float lies, which is rarely the half
Round4(k, rows) ==
    LET q == (k * 10000) \div rows
        m == (k * 10000) % rows
        e == IF k = rows THEN 0 ELSE DoubleError(k, rows, 0, 0)
    IN  IF 2 * m > rows THEN q + 1
        ELSE IF 2 * m < rows THEN q
        ELSE IF e > 0 THEN q + 1
        ELSE IF e < 0 THEN q
        ELSE IF q % 2 = 0 THEN q ELSE q + 1

\* line 117
NoModel(model) == model = None

\* a bug: the winning features are not looked for in the current split
CurrentExists(current, features) == current # None

\* line 128
CanPredictCurrent(current, features) ==
    current # None /\ AllIn(features, current[1])

\* a print and the continue that follows it
Continue(msg) ==
    /\ log' = Append(log, [dataset |-> basename', msg |-> msg])
    /\ fileidx' = fileidx + 1
    /\ pcPred' = "loop"

PredStart ==
    /\ pcPred = "start"
    /\ trainfiles' \in TrainFilesOf(normalizeddir)
    /\ currentfiles' \in CurrentFilesOf(normalizeddir)
    /\ summaryresults' = <<>>
    /\ fileidx' = 1
    /\ pcPred' = "loop"
    /\ UNCHANGED <<normalizeddir, basename, dfcurrent, predictionsdir, log, attempted>>
    /\ UNCHANGED selVars

\* line 115: the call
CallSearch(found) ==
    /\ candidatefeatures' = found
    /\ r' = 0 /\ indices' = <<>> /\ acc' = 0
    /\ bestaccuracy' = 0 /\ bestfeatures' = <<>>
    /\ bestmodel' = None /\ bestreporttest' = None
    /\ visited' = <<>> /\ maxacc' = -1 /\ firstmax' = <<>>
    /\ pcSel' = "entry"

\* the body leaves before the call: the results of the last call stay bound
NoCall(pc, found) ==
    /\ pcSel' = pc
    /\ candidatefeatures' = found
    /\ UNCHANGED <<r, indices, acc, bestaccuracy, bestfeatures,
                   bestmodel, bestreporttest, visited, maxacc, firstmax>>

\* lines 90-115: the body for one train file, to the call of the search
PredLoad ==
    /\ pcPred = "loop"
    /\ fileidx <= Len(trainfiles)
    /\ basename' = Replace(trainfiles[fileidx], TRAINSUFFIX)
    /\ attempted' = Append(attempted, basename')
    /\ UNCHANGED <<normalizeddir, trainfiles, currentfiles, summaryresults,
                   predictionsdir>>
    /\ IF (basename' \o TESTSUFFIX) \notin normalizeddir
       THEN /\ Continue("Missing test file")
            /\ NoCall("idle", candidatefeatures)
            /\ UNCHANGED <<dftrain, dftest, dfcurrent>>
       ELSE \/ \* a pd.readcsv raises: nothing in runpredictions catches it
               /\ pcPred' = "crashed"
               /\ NoCall("idle", candidatefeatures)
               /\ UNCHANGED <<dftrain, dftest, dfcurrent, fileidx, log>>
            \/ \E tr \in TrainFrames, te \in TestFrames :
               \E cu \in IF basename' \in DOMAIN currentfiles
                            /\ currentfiles[basename'] \in normalizeddir
                         THEN {Some(f) : f \in CurrentFrames} ELSE {None} :
                 /\ dftrain' = tr
                 /\ dftest' = te
                 /\ dfcurrent' = cu
                 /\ IF ~HasColumn(tr, TARGETCOL) \/ ~HasColumn(te, TARGETCOL)
                    THEN /\ Continue("Target column missing")
                         /\ NoCall("nocall", candidatefeatures)
                    ELSE IF discovercandidatefeatures(tr.columns) = <<>>
                    THEN /\ Continue("No candidate features")
                         /\ NoCall("nocall", <<>>)
                    ELSE /\ log' = Append(log, [dataset |-> basename',
                                      msg |-> "Evaluating feature combinations"])
                         /\ CallSearch(discovercandidatefeatures(tr.columns))
                         /\ pcPred' = "select"
                         /\ UNCHANGED fileidx

SummaryEntry(testacc, currentacc) ==
    [Dataset |-> basename,
     AccuracyTest |-> Round4(testacc, EvalRows),
     AccuracyCurrent |-> currentacc,
     BestFeatures |-> bestfeatures]

PredFile(name, frame) == [name |-> name, columns |-> frame.columns]

\* lines 117-158: the body after the search returned
PredFinish ==
    /\ pcPred = "select"
    /\ pcSel = "returned"
    /\ UNCHANGED <<normalizeddir, trainfiles, currentfiles, basename, attempted>>
    /\ UNCHANGED <<dftrain, candidatefeatures, r, indices, acc, bestaccuracy,
                   bestfeatures, bestmodel, bestreporttest, pcSel, visited,
                   maxacc, firstmax>>
    /\ fileidx' = fileidx + 1
    /\ pcPred' = "loop"
    /\ IF NoModel(bestmodel)
       THEN /\ log' = Append(log, [dataset |-> basename,
                                   msg |-> "No valid feature combinations found"])
            /\ UNCHANGED <<dftest, dfcurrent, summaryresults, predictionsdir>>
       ELSE LET testout == PredFile(basename \o "TestPred.csv", WithColumn(dftest, "Pred"))
                testacc == bestreporttest[1].accuracy
            IN  /\ dftest' = WithColumn(dftest, "Pred")
                /\ IF CanPredictCurrent(dfcurrent, bestfeatures)
                   THEN LET cur == WithColumn(dfcurrent[1], "Pred")
                            currout == PredFile(basename \o "CurrentPred.csv", cur)
                        IN  /\ dfcurrent' = Some(cur)
                            /\ predictionsdir' = predictionsdir \cup {testout, currout}
                            /\ log' = log \o <<[dataset |-> basename, msg |-> "Saved test predictions"],
                                               [dataset |-> basename, msg |-> "Saved current predictions"]>>
                            /\ IF HasColumn(cur, TARGETCOL)
                               THEN \E c \in PredAccLevels :
                                      summaryresults' = Append(summaryresults,
                                          SummaryEntry(testacc, Some(Round4(c, EvalRows))))
                               ELSE summaryresults' = Append(summaryresults,
                                          SummaryEntry(testacc, None))
                   ELSE /\ UNCHANGED dfcurrent
                        /\ predictionsdir' = predictionsdir \cup {testout}
                        /\ log' = Append(log, [dataset |-> basename,
                                               msg |-> "Saved test predictions"])
                        /\ summaryresults' = Append(summaryresults,
                                          SummaryEntry(testacc, None))

\* lines 160-166
PredSummary ==
    /\ pcPred = "loop"
    /\ fileidx > Len(trainfiles)
    /\ log' = Append(log, [dataset |-> "",
                           msg |-> IF summaryresults # <<>> THEN "FINAL SUMMARY"
                                   ELSE "No models evaluated or predictions made."])
    /\ pcPred' = "done"
    /\ UNCHANGED <<normalizeddir, trainfiles, currentfiles, fileidx, basename,
                   dfcurrent, summaryresults, predictionsdir, attempted>>
    /\ UNCHANGED selVars

\* NORMALIZEDDIR holds the train file of every dataset of the run; the
\* first dataset may lack its test file and the second its current file.
\* one dataset with two current files whose names give the same key at line 86
TwinDir ==
    {DatasetNames[1] \o TRAINSUFFIX, DatasetNames[1] \o TESTSUFFIX,
     DatasetNames[1] \o CURRENTNORMSUFFIX,
     CURRENTNORMSUFFIX \o DatasetNames[1] \o CURRENTNORMSUFFIX}

NormDirs ==
    {{DatasetNames[i] \o TRAINSUFFIX : i \in 1..n}
       \cup {DatasetNames[i] \o TESTSUFFIX : i \in (1..n) \ notest}
       \cup {DatasetNames[i] \o CURRENTNORMSUFFIX : i \in (1..n) \ nocur} :
     n \in 0..MaxDatasets, notest \in {{}, {1}}, nocur \in {{}, {2}}}
    \cup {TwinDir}

InitPred ==
    /\ normalizeddir \in NormDirs
    /\ trainfiles = <<>> /\ currentfiles = <<>>
    /\ fileidx = 0 /\ basename = "" /\ dfcurrent = None
    /\ summaryresults = <<>> /\ predictionsdir = {} /\ log = <<>>
    /\ pcPred = "start" /\ attempted = <<>>
    /\ NoSearch /\ DiscIdle /\ CleanIdle /\ NormIdle /\ FeatIdle

otherThanPred == <<discVars, cleanVars, normVars, featVars>>

NextPred ==
    \/ PredStart /\ UNCHANGED otherThanPred
    \/ PredLoad /\ UNCHANGED otherThanPred
    \/ SelEnter /\ UNCHANGED otherThanSel
    \/ SelVisit(PredAccLevels) /\ UNCHANGED otherThanSel
    \/ SelReturn /\ UNCHANGED otherThanSel
    \/ PredFinish /\ UNCHANGED otherThanPred
    \/ PredSummary /\ UNCHANGED otherThanPred

SpecPred == InitPred /\ [][NextPred]_vars

----------------------------------------------------------------------------
(* Claims about runpredictions. *)

\* the body for basename ran to its end after the search returned
FinishedAfterSearch == pcSel = "returned" /\ pcPred \in {"loop", "done"}

\* the body for basename found no candidate at line 110
ZeroCandidates ==
    /\ pcSel = "nocall"
    /\ HasColumn(dftrain, TARGETCOL) /\ HasColumn(dftest, TARGETCOL)
    /\ candidatefeatures = <<>>

\* fewer than two candidates are in both splits: no subset of two or more
\* features passes the presence check
NoValidSubset ==
    Cardinality({c \in Range(candidatefeatures) :
                    HasColumn(dftrain, c) /\ HasColumn(dftest, c)}) < 2

FilesOf(b) ==
    {f \in predictionsdir : f.name \in {b \o "TestPred.csv", b \o "CurrentPred.csv"}}
EntriesOf(b) ==
    {i \in 1..Len(summaryresults) : summaryresults[i].Dataset = b}
\* what the run printed for dataset b, in order
MessagesOf(b) ==
    LET printed == SelectSeq(log, LAMBDA e : e.dataset = b)
    IN  [i \in 1..Len(printed) |-> printed[i].msg]

\* the skip is the only thing printed for the dataset, after the
\* announcement of the search when the search ran
SkippedCleanly ==
    /\ pcPred \in {"loop", "done"}
    /\ fileidx = Len(attempted) + 1
    /\ MessagesOf(basename) =
          IF pcSel = "nocall" THEN <<"No candidate features">>
          ELSE <<"Evaluating feature combinations",
                 "No valid feature combinations found">>
    /\ FilesOf(basename) = {}
    /\ EntriesOf(basename) = {}

\* C4: with no valid subset the search returns an absent model, an empty
\* feature list and an absent report, and runpredictions logs the skip, writes
\* no prediction file and no summary entry for the dataset, and goes on.
C4_EmptySearchSpace ==
    /\ (pcSel = "returned" /\ NoValidSubset) =>
          bestmodel = None /\ bestfeatures = <<>> /\ bestreporttest = None
    /\ (ZeroCandidates \/ (FinishedAfterSearch /\ NoValidSubset)) => SkippedCleanly

\* two candidates or more, none of their subsets in both splits, the dataset
\* was skipped and another one is still to come
C4_Witness ==
    /\ FinishedAfterSearch
    /\ NoValidSubset
    /\ Len(candidatefeatures) >= 2
    /\ pcPred = "loop"
    /\ fileidx <= Len(trainfiles)

CurrentPredicted ==
    \E f \in predictionsdir : f.name = basename \o "CurrentPred.csv"

Position(b) == CHOOSE i \in 1..Len(attempted) : attempted[i] = b

\* C6: for a dataset with a selected model, current predictions are written
\* iff a current split exists and holds every winning feature; one summary
\* entry is appended for it, in processing order; its current accuracy is
\* present iff predictions were made and the current split holds the target.
C6_SummaryEntry ==
    /\ (FinishedAfterSearch /\ bestmodel # None) =>
         /\ CurrentPredicted <=> (dfcurrent # None /\ AllIn(bestfeatures, dfcurrent[1]))
         /\ EntriesOf(basename) = {Len(summaryresults)}
         /\ summaryresults[Len(summaryresults)].BestFeatures = bestfeatures
         /\ (summaryresults[Len(summaryresults)].AccuracyCurrent # None)
              <=> (CurrentPredicted /\ HasColumn(dfcurrent[1], TARGETCOL))
    /\ \A i \in 1..Len(summaryresults) :
         /\ Contains(attempted, summaryresults[i].Dataset)
         /\ \A j \in (i + 1)..Len(summaryresults) :
              Position(summaryresults[i].Dataset) < Position(summaryresults[j].Dataset)

\* the second dataset has a model, and a current split that lacks one of the
\* winning features: its entry follows the first dataset's, without accuracy
C6_Witness ==
    /\ FinishedAfterSearch
    /\ bestmodel # None
    /\ dfcurrent # None
    /\ ~AllIn(bestfeatures, dfcurrent[1])
    /\ Len(summaryresults) = 2
    /\ summaryresults[2].AccuracyCurrent = None

\* C7: a failure while a dataset is processed is caught at that dataset;
\* every discovered dataset is attempted and the run reaches its summary.
C7_FailureIsolation ==
    pcPred \in {"done", "crashed"} =>
        /\ pcPred = "done"
        /\ Len(attempted) = Len(trainfiles)

----------------------------------------------------------------------------
(* pred.py: discovercandidatefeatures as a program of its own *)

\* the column lists have 0..MaxCols distinct names of ColumnNames
MaxCols == 3

ColumnNames ==
    {"Date", "Close", "Target", "Year",
     "FeatureA", "FeatureALag1", "CloseLag1", "TargetLag1", "Lag1", "Lag1Close",
     "SignalX", "Metric", "Feat", "MyFeature", "feature1"}

RECURSIVE DistinctSeqs(_, _)
\* the lists of at most n distinct elements of S
DistinctSeqs(S, n) ==
    IF n = 0 THEN {<<>>}
    ELSE LET shorter == DistinctSeqs(S, n - 1)
         IN  shorter \cup
             {Append(e[1], e[2]) : e \in {x \in shorter \X S : x[2] \notin Range(x[1])}}

DiscoverCall ==
    /\ pcDisc = "call"
    /\ candidates' = discovercandidatefeatures(columns)
    /\ pcDisc' = "done"
    /\ UNCHANGED columns

InitDisc ==
    /\ columns \in DistinctSeqs(ColumnNames, MaxCols)
    /\ candidates = <<>>
    /\ pcDisc = "call"
    /\ NoSearch /\ PredIdle /\ CleanIdle /\ NormIdle /\ FeatIdle

NextDisc == DiscoverCall /\ UNCHANGED <<selVars, predVars, cleanVars, normVars, featVars>>

SpecDisc == InitDisc /\ [][NextDisc]_vars

(* Claims about discovercandidatefeatures. *)

Excluded(c) == c \in {"Date", "Open", "High", "Low", "Close", "Volume", "Target"}
HasLagSuffix(c) == \E k \in 0..Len(c) : SubSeq(c, k + 1, Len(c)) = "Lag1"
HasCandidatePrefix(c) ==
    \E k \in 0..Len(c) : SubSeq(c, 1, k) \in {"Feature", "Signal", "Metric"}
Wanted(c) == ~Excluded(c) /\ (HasLagSuffix(c) \/ HasCandidatePrefix(c))

\* s is t with some elements left out, the order kept
IsSubsequence(s, t) ==
    \E f \in [1..Len(s) -> 1..Len(t)] :
        /\ \A i \in 1..Len(s) : s[i] = t[f[i]]
        /\ \A i \in 1..(Len(s) - 1) : f[i] < f[i + 1]

\* C5: for a list of distinct column names the result is the subsequence, in
\* input order, of the columns that are not excluded and end with the lag
\* suffix or start with a candidate prefix; no excluded column is returned and
\* a column that matches both rules appears once.
C5_Discovery ==
    pcDisc = "done" =>
        /\ IsSubsequence(candidates, columns)
        /\ Range(candidates) = {c \in Range(columns) : Wanted(c)}
        /\ \A i, j \in 1..Len(candidates) : candidates[i] = candidates[j] => i = j
        /\ \A i \in 1..Len(candidates) : ~Excluded(candidates[i])

\* the input holds an excluded column and, after a prefix match, a column
\* that matches both rules
C5_Witness ==
    /\ pcDisc = "done"
    /\ Len(columns) = 3
    /\ columns[1] = "SignalX" /\ columns[2] = "Target" /\ columns[3] = "FeatureALag1"
    /\ candidates = <<"SignalX", "FeatureALag1">>

----------------------------------------------------------------------------
(* clean.py.  A cell is a number <<n, d>> (n/d in lowest terms), a text     *)
(* <<t>>, a timestamp, or the missing marker <<>> (NaN, NaT, None).  A data *)
(* frame has the list of its columns and, per column, its dtype ("float",   *)
(* "object" or "datetime") and the list of its cells.  The functions of     *)
(* the module are called one after the other on the same frame, in any      *)
(* order, and then handlemissing.                                           *)

\* a frame has CleanRows rows, its numbers are 0..MaxValue
CleanRows == 2
MaxValue == 1

NaN == <<>>
Num(n) == <<n, 1>>
Text(t) == <<t>>
\* the timestamp read from x, a text or a number
Timestamp(x) == <<x, "datetime64", "ns">>

IsText(cell) == Len(cell) = 1
IsNumber(cell) == Len(cell) = 2
IsTimestamp(cell) == Len(cell) = 3

\* the rows of a frame
Rows(frame) == IF frame.columns = <<>> THEN 0 ELSE Len(frame.data[frame.columns[1]])

DIGITS == "0123456789"
IsDigit(ch) == \E i \in 1..Len(DIGITS) : SubSeq(DIGITS, i, i) = ch
DigitOf(ch) == (CHOOSE i \in 1..Len(DIGITS) : SubSeq(DIGITS, i, i) = ch) - 1
AllDigits(t) == \A i \in 1..Len(t) : IsDigit(SubSeq(t, i, i))

RECURSIVE ParseNat(_, _)
\* the number written by the digits of t after the number sofar
ParseNat(t, sofar) ==
    IF Len(t) = 0 THEN sofar
    ELSE ParseNat(SubSeq(t, 2, Len(t)), 10 * sofar + DigitOf(SubSeq(t, 1, 1)))

\* pd.to_numeric(errors="coerce") on one cell.  Of the texts, the model reads
\* the unsigned integer literals as numbers; every other text of a frame of
\* the model is one pandas cannot parse and becomes the missing marker.
ToNumeric(cell) ==
    IF IsText(cell)
    THEN IF Len(cell[1]) > 0 /\ AllDigits(cell[1]) THEN Num(ParseNat(cell[1], 0)) ELSE NaN
    ELSE cell

IsLeap(y) == y % 4 = 0 /\ (y % 100 # 0 \/ y % 400 = 0)
DaysIn(y, m) ==
    IF m = 2 THEN (IF IsLeap(y) THEN 29 ELSE 28)
    ELSE IF m \in {4, 6, 9, 11} THEN 30 ELSE 31

\* t is a calendar date written YYYY-MM-DD that datetime64[ns] can hold:
\* 1677-09-22 to 2262-04-11
IsDateText(t) ==
    /\ Len(t) = 10
    /\ SubSeq(t, 5, 5) = "-" /\ SubSeq(t, 8, 8) = "-"
    /\ AllDigits(SubSeq(t, 1, 4)) /\ AllDigits(SubSeq(t, 6, 7)) /\ AllDigits(SubSeq(t, 9, 10))
    /\ LET y == ParseNat(SubSeq(t, 1, 4), 0)
            m == ParseNat(SubSeq(t, 6, 7), 0)
            d == ParseNat(SubSeq(t, 9, 10), 0)
       IN  /\ m >= 1 /\ m <= 12
           /\ d >= 1 /\ d <= DaysIn(y, m)
           /\ 10000 * y + 100 * m + d >= 16770922
           /\ 10000 * y + 100 * m + d <= 22620411

\* pd.to_datetime(errors="coerce") on one cell.  Of the texts, the model
\* reads the dates written YYYY-MM-DD; every other text of a frame of the
\* model is one pandas cannot parse and becomes the missing marker (NaT).
ToDatetime(cell) ==
    IF IsText(cell) THEN (IF IsDateText(cell[1]) THEN Timestamp(cell[1]) ELSE NaN)
    ELSE IF IsNumber(cell) THEN Timestamp(cell)
    ELSE cell

RECURSIVE coercedates(_, _)
\* lines 16-20
coercedates(frame, datecols) ==
    IF datecols = <<>> THEN frame
    ELSE LET col == Head(datecols)
             v == frame.data[col]
         IN  coercedates(
                IF Contains(frame.columns, col)
                THEN [frame EXCEPT !.data[col] = [i \in 1..Len(v) |-> ToDatetime(v[i])],
                                   !.dtypes[col] = "datetime"]
                ELSE frame,
                Tail(datecols))

RECURSIVE coercenumerics(_, _)
\* lines 22-26
coercenumerics(frame, numericcols) ==
    IF numericcols = <<>> THEN frame
    ELSE LET col == Head(numericcols)
             v == frame.data[col]
         IN  coercenumerics(
                IF Contains(frame.columns, col)
                THEN [frame EXCEPT !.data[col] = [i \in 1..Len(v) |-> ToNumeric(v[i])],
                                   !.dtypes[col] = "float"]
                ELSE frame,
                Tail(numericcols))

\* the rows of frame numbered by the list kept, in that order
TakeRows(frame, kept) ==
    [frame EXCEPT !.data =
        [c \in DOMAIN frame.data |-> [k \in 1..Len(kept) |-> frame.data[c][kept[k]]]]]

\* DataFrame.drop_duplicates(subset): a row goes when an earlier row has the
\* same cells in the columns of subset (all columns for None); missing
\* markers count as equal
DropDuplicates(frame, subset) ==
    LET keys == IF subset = None THEN Range(frame.columns) ELSE Range(subset[1])
        Repeats(i) == \E j \in 1..(i - 1) : \A c \in keys : frame.data[c][j] = frame.data[c][i]
    IN  TakeRows(frame, SelectSeq([i \in 1..Rows(frame) |-> i], LAMBDA i : ~Repeats(i)))

\* DataFrame.dropna(how="all").reset_index(drop=True)
DropEmptyRows(frame) ==
    LET Empty(i) == \A c \in Range(frame.columns) : frame.data[c][i] = NaN
    IN  TakeRows(frame, SelectSeq([i \in 1..Rows(frame) |-> i], LAMBDA i : ~Empty(i)))

\* lines 28-31
dropduplicatesandtrim(frame, subset) == DropEmptyRows(DropDuplicates(frame, subset))

RECURSIVE Gcd(_, _)
Gcd(a, b) == IF b = 0 THEN a ELSE Gcd(b, a % b)

\* n/d in lowest terms, n >= 0 and d > 0
Ratio(n, d) == LET g == Gcd(n, d) IN IF g = 0 THEN <<0, 1>> ELSE <<n \div g, d \div g>>

Less(a, b) == a[1] * b[2] < b[1] * a[2]
Plus(a, b) == Ratio(a[1] * b[2] + b[1] * a[2], a[2] * b[2])
Over(a, k) == Ratio(a[1], a[2] * k)

\* Series.dropna
Present(v) == SelectSeq(v, LAMBDA c : c # NaN)

RECURSIVE Insert(_, _)
Insert(sorted, c) ==
    IF sorted = <<>> THEN <<c>>
    ELSE IF Less(c, Head(sorted)) THEN <<c>> \o sorted
    ELSE <<Head(sorted)>> \o Insert(Tail(sorted), c)

RECURSIVE Sorted(_)
Sorted(v) == IF v = <<>> THEN <<>> ELSE Insert(Sorted(Tail(v)), Head(v))

RECURSIVE Sum(_)
Sum(v) == IF v = <<>> THEN <<0, 1>> ELSE Plus(Head(v), Sum(Tail(v)))

\* Series.median: the missing cells are skipped; NaN when none is left
Median(v) ==
    LET p == Sorted(Present(v))
        n == Len(p)
    IN  IF n = 0 THEN NaN
        ELSE IF n % 2 = 1 THEN p[(n + 1) \div 2]
        ELSE Over(Plus(p[n \div 2], p[(n \div 2) + 1]), 2)

\* Series.mean: the missing cells are skipped; NaN when none is left
Mean(v) ==
    LET p == Present(v)
    IN  IF p = <<>> THEN NaN ELSE Over(Sum(p), Len(p))

\* Series.fillna(value): fillna(NaN) changes nothing
FillNa(v, value) == [i \in 1..Len(v) |-> IF v[i] = NaN THEN value ELSE v[i]]

RECURSIVE FFill(_)
\* Series.ffill: a missing cell takes the last cell before it that is present
FFill(v) ==
    IF Len(v) <= 1 THEN v
    ELSE LET front == FFill(SubSeq(v, 1, Len(v) - 1))
             last == v[Len(v)]
         IN  Append(front, IF last = NaN THEN front[Len(front)] ELSE last)

\* pd.api.types.isnumericdtype of the column
IsNumeric(frame, c) == frame.dtypes[c] = "float"

\* lines 46-51 for one column
FillColumn(v, strat) ==
    IF strat = "median" THEN FillNa(v, Median(v))
    ELSE IF strat = "mean" THEN FillNa(v, Mean(v))
    ELSE IF strat = "zero" THEN FillNa(v, Num(0))
    ELSE IF strat = "ffill" THEN FFill(v)
    ELSE v

RECURSIVE FillColumns(_, _, _)
\* lines 45-51: the loop over cols
FillColumns(frame, strat, targets) ==
    IF targets = <<>> THEN frame
    ELSE FillColumns(
            [frame EXCEPT !.data[Head(targets)] = FillColumn(@, strat)],
            strat, Tail(targets))

\* lines 43-44
TargetColumns(frame, given) ==
    IF given = None THEN SelectSeq(frame.columns, LAMBDA c : IsNumeric(frame, c))
    ELSE given[1]

handlemissing(frame, strat, given) ==
    FillColumns(frame, strat, TargetColumns(frame, given))

\* the column lists the coercions and the trimming are called with
DateCols == {<<"d">>, <<"d", "when">>}
NumericCols == {<<"t">>, <<"x", "t", "amount">>}
Subsets == {None, Some(<<"x">>)}

CoerceDates ==
    /\ pcClean = "call"
    /\ \E datecols \in DateCols : df' = coercedates(df, datecols)
    /\ UNCHANGED <<strategy, cols, pcClean, dfbefore>>

CoerceNumerics ==
    /\ pcClean = "call"
    /\ \E numericcols \in NumericCols : df' = coercenumerics(df, numericcols)
    /\ UNCHANGED <<strategy, cols, pcClean, dfbefore>>

DropDuplicatesAndTrim ==
    /\ pcClean = "call"
    /\ \E subset \in Subsets : df' = dropduplicatesandtrim(df, subset)
    /\ UNCHANGED <<strategy, cols, pcClean, dfbefore>>

CleanCall ==
    /\ pcClean = "call"
    /\ dfbefore' = df
    /\ df' = handlemissing(df, strategy, cols)
    /\ pcClean' = "done"
    /\ UNCHANGED <<strategy, cols>>

CleanCells == {NaN} \cup {Num(k) : k \in 0..MaxValue}
CleanVectors == [1..CleanRows -> CleanCells]
Strategies == {"median", "mean", "zero", "ffill"}

\* the text columns as read from a file: a number and a date in the first
\* row, a word below
TextColumn(first) == [i \in 1..CleanRows |-> IF i = 1 THEN Text(first) ELSE Text("abc")]

\* two float columns x and y, a text column t of numbers and a text column
\* d of dates
InitClean ==
    /\ \E x \in CleanVectors, y \in CleanVectors :
         df = [columns |-> <<"x", "y", "t", "d">>,
               dtypes |-> [c \in {"x", "y", "t", "d"} |->
                             IF c \in {"x", "y"} THEN "float" ELSE "object"],
               data |-> [c \in {"x", "y", "t", "d"} |->
                           IF c = "x" THEN x
                           ELSE IF c = "y" THEN y
                           ELSE IF c = "t" THEN TextColumn("1")
                           ELSE TextColumn("2024-01-02")]]
    /\ dfbefore = df
    /\ strategy \in Strategies
    /\ cols \in {None, Some(<<"x">>), Some(<<"y", "x">>)}
    /\ pcClean = "call"
    /\ NoSearch /\ PredIdle /\ DiscIdle /\ NormIdle /\ FeatIdle

otherThanClean == <<selVars, predVars, discVars, normVars, featVars>>

NextClean ==
    \/ CoerceDates /\ UNCHANGED otherThanClean
    \/ CoerceNumerics /\ UNCHANGED otherThanClean
    \/ DropDuplicatesAndTrim /\ UNCHANGED otherThanClean
    \/ CleanCall /\ UNCHANGED otherThanClean

SpecClean == InitClean /\ [][NextClean]_vars

(* Claims about handlemissing. *)

Targeted == Range(TargetColumns(dfbefore, cols))

\* C9: after the call no targeted column holds the missing marker and every
\* other column is unchanged, for every strategy and column list, also for a
\* column that is all missing or starts with missing cells.
C9_NoMissingLeft ==
    pcClean = "done" =>
        /\ \A c \in Targeted : \A i \in 1..Len(df.data[c]) : df.data[c][i] # NaN
        /\ \A c \in Range(df.columns) \ Targeted : df.data[c] = dfbefore.data[c]

----------------------------------------------------------------------------
(* norm.py: normalizecurrentagainsttrain.  One action lists SPLITDIR, one   *)
(* runs the loop body for one train file, one prints the last line.         *)

CURRENTPROCESSEDSUFFIX == "CurrentProcessed.csv"
NORMALIZECOLS ==
    <<"FeatureA", "FeatureALag1", "FeatureB", "FeatureBLag1",
      "FeatureC", "FeatureCLag1", "SignalX", "SignalXLag1">>

\* a data frame whose columns all hold the cells rows
DataFrame(names, rows) == [columns |-> names, data |-> [c \in Range(names) |-> rows]]

Abs(n) == IF n < 0 THEN 0 - n ELSE n

\* n/d in lowest terms, d > 0
Quotient(n, d) ==
    LET g == Gcd(Abs(n), d) IN IF n = 0 THEN <<0, 1>> ELSE <<n \div g, d \div g>>
Minus(a, b) == Quotient(a[1] * b[2] - b[1] * a[2], a[2] * b[2])
\* a / b for b > 0
Divide(a, b) == Quotient(a[1] * b[2], a[2] * b[1])

ColumnMin(v) == CHOOSE m \in Range(v) : \A x \in Range(v) : ~Less(x, m)
ColumnMax(v) == CHOOSE m \in Range(v) : \A x \in Range(v) : ~Less(m, x)

\* MinMaxScaler().fit(frame[names])
Fit(frame, names) ==
    [features |-> names,
     datamin |-> [c \in Range(names) |-> ColumnMin(frame.data[c])],
     datamax |-> [c \in Range(names) |-> ColumnMax(frame.data[c])]]

\* MinMaxScaler: (x - min) / (max - min), the divisor 1 for a constant column
Scale(x, lo, hi) ==
    IF hi = lo THEN Minus(x, lo) ELSE Divide(Minus(x, lo), Minus(hi, lo))

\* MinMaxScaler.transform(frame[names]): a ValueError unless names are the
\* features the scaler was fitted on
TransformRaises(sc, names) == names # sc.features

\* frame[names] = scaler.transform(frame[names])
Transformed(sc, frame, names) ==
    LET old == frame.data
    IN  [frame EXCEPT !.data =
            [c \in DOMAIN old |->
                IF Contains(names, c)
                THEN [i \in 1..Len(old[c]) |-> Scale(old[c][i], sc.datamin[c], sc.datamax[c])]
                ELSE old[c]]]

\* frame[col] = cells
WithData(frame, col, cells) ==
    LET old == frame.data
    IN  [columns |-> IF Contains(frame.columns, col) THEN frame.columns
                     ELSE Append(frame.columns, col),
         data |-> [c \in DOMAIN old \cup {col} |-> IF c = col THEN cells ELSE old[c]]]

RECURSIVE KeepOriginals(_, _)
\* lines 47-48
KeepOriginals(frame, names) ==
    IF names = <<>> THEN frame
    ELSE KeepOriginals(WithData(frame, Head(names) \o "Orig", frame.data[Head(names)]),
                       Tail(names))

\* [c for c in names if c in frame.columns]
Available(names, frame) == SelectSeq(names, LAMBDA c : HasColumn(frame, c))

NormStart ==
    /\ pcNorm = "start"
    /\ normfiles' \in TrainFilesOf(DOMAIN splitdir)
    /\ normidx' = 1
    /\ pcNorm' = "loop"
    /\ UNCHANGED <<splitdir, processeddir, normalizedout, normbase, availablecolstrain,
                   availablecolscurrent, scaler, normlog, normattempted>>

NormContinue(msg) ==
    /\ normlog' = Append(normlog, [dataset |-> normbase', msg |-> msg])
    /\ normidx' = normidx + 1
    /\ pcNorm' = "loop"
    /\ UNCHANGED normalizedout

\* lines 23-53: the body for one train file
NormBody ==
    /\ pcNorm = "loop"
    /\ normidx <= Len(normfiles)
    /\ normbase' = Replace(normfiles[normidx], TRAINSUFFIX)
    /\ normattempted' = Append(normattempted, normbase')
    /\ UNCHANGED <<splitdir, processeddir, normfiles>>
    /\ LET trainpath == normbase' \o TRAINSUFFIX
           currentpath == normbase' \o CURRENTPROCESSEDSUFFIX
       IN  IF currentpath \notin DOMAIN processeddir
           THEN /\ NormContinue("No current processed file")
                /\ UNCHANGED <<availablecolstrain, availablecolscurrent, scaler>>
           ELSE LET train == splitdir[trainpath]
                    current == processeddir[currentpath]
                    fitted == Available(NORMALIZECOLS, train)
                    shared == Available(fitted, current)
                    sc == Fit(train, fitted)
                IN  /\ availablecolstrain' = fitted
                    /\ IF fitted = <<>>
                       THEN /\ NormContinue("no normalizable columns in train")
                            /\ UNCHANGED <<availablecolscurrent, scaler>>
                       ELSE /\ scaler' = Some(sc)
                            /\ availablecolscurrent' = shared
                            /\ IF shared = <<>>
                               THEN NormContinue("no overlapping normalization columns in current")
                               ELSE IF TransformRaises(sc, shared)
                               THEN \* nothing in the loop catches the ValueError
                                    /\ pcNorm' = "crashed"
                                    /\ UNCHANGED <<normalizedout, normidx, normlog>>
                               ELSE LET outpath == normbase' \o CURRENTNORMSUFFIX
                                        kept == KeepOriginals(current,
                                                    SubSeq(shared, 1, Min(3, Len(shared))))
                                        out == Transformed(sc, kept, shared)
                                    IN  /\ normalizedout' =
                                            [f \in DOMAIN normalizedout \cup {outpath} |->
                                                IF f = outpath THEN out ELSE normalizedout[f]]
                                        /\ normlog' = Append(normlog,
                                              [dataset |-> normbase',
                                               msg |-> "Saved normalized current"])
                                        /\ normidx' = normidx + 1
                                        /\ pcNorm' = "loop"

\* line 55
NormEnd ==
    /\ pcNorm = "loop"
    /\ normidx > Len(normfiles)
    /\ normlog' = Append(normlog, [dataset |-> "",
                                   msg |-> "All current datasets normalized and saved."])
    /\ pcNorm' = "done"
    /\ UNCHANGED <<splitdir, processeddir, normalizedout, normfiles, normidx, normbase,
                   availablecolstrain, availablecolscurrent, scaler, normattempted>>

\* the train splits and the processed current splits of a run
NormTrainFrames ==
    {DataFrame(names, rows) :
        names \in {<<"Date", "Close">>,
                   <<"Date", "FeatureA", "FeatureB">>,
                   <<"Date", "FeatureA", "FeatureALag1", "FeatureB", "SignalX">>},
        rows \in {<<Num(0), Num(2)>>, <<Num(1), Num(1)>>}}
NormCurrentFrames ==
    {DataFrame(names, <<Num(1), Num(3)>>) :
        names \in {<<"Date", "Close">>,
                   <<"Date", "FeatureA">>,
                   <<"Date", "FeatureA", "FeatureB">>,
                   <<"Date", "SignalX", "FeatureB", "FeatureALag1", "FeatureA">>}}

InitNorm ==
    /\ \E n \in 0..MaxDatasets :
         /\ splitdir \in [{DatasetNames[i] \o TRAINSUFFIX : i \in 1..n} -> NormTrainFrames]
         /\ \E present \in SUBSET (1..n) :
              processeddir \in [{DatasetNames[i] \o CURRENTPROCESSEDSUFFIX : i \in present}
                                  -> NormCurrentFrames]
    /\ normalizedout = <<>>
    /\ normfiles = <<>> /\ normidx = 0 /\ normbase = ""
    /\ availablecolstrain = <<>> /\ availablecolscurrent = <<>>
    /\ scaler = None /\ normlog = <<>> /\ pcNorm = "start" /\ normattempted = <<>>
    /\ NoSearch /\ PredIdle /\ DiscIdle /\ CleanIdle /\ FeatIdle

otherThanNorm == <<selVars, predVars, discVars, cleanVars, featVars>>

NextNorm ==
    \/ NormStart /\ UNCHANGED otherThanNorm
    \/ NormBody /\ UNCHANGED otherThanNorm
    \/ NormEnd /\ UNCHANGED otherThanNorm

SpecNorm == InitNorm /\ [][NextNorm]_vars

(* Claims about normalizecurrentagainsttrain. *)

TrainOf(b) == splitdir[b \o TRAINSUFFIX]
HasProcessed(b) == (b \o CURRENTPROCESSEDSUFFIX) \in DOMAIN processeddir
ProcessedOf(b) == processeddir[b \o CURRENTPROCESSEDSUFFIX]
FittedColumns(b) == {c \in Range(NORMALIZECOLS) : HasColumn(TrainOf(b), c)}
SharedColumns(b) == {c \in FittedColumns(b) : HasColumn(ProcessedOf(b), c)}
Normalizable(b) == HasProcessed(b) /\ SharedColumns(b) # {}

\* the output of b holds, in the shared columns, the current cells scaled
\* with the minimum and maximum of the train column
WrittenFromTrain(b) ==
    /\ (b \o CURRENTNORMSUFFIX) \in DOMAIN normalizedout
    /\ LET out == normalizedout[b \o CURRENTNORMSUFFIX]
       IN  \A c \in SharedColumns(b) :
             \A i \in 1..Len(out.data[c]) :
                out.data[c][i] = Scale(ProcessedOf(b).data[c][i],
                                       ColumnMin(TrainOf(b).data[c]),
                                       ColumnMax(TrainOf(b).data[c]))

\* C8: a dataset whose train split holds a normalization column and whose
\* processed current split shares one gets its normalized output, scaled
\* with the train minimum and maximum, also when the current split lacks
\* some fitted columns; every other dataset is skipped.
C8_FitApply ==
    \A k \in 1..Len(normattempted) :
        LET b == normattempted[k]
        IN  IF Normalizable(b) THEN WrittenFromTrain(b)
            ELSE (b \o CURRENTNORMSUFFIX) \notin DOMAIN normalizedout

----------------------------------------------------------------------------
(* features.py: processcurrentfiles.  A run lists CURRENTDIR once and then  *)
(* takes the listed files in the order os.listdir gave them, which is any   *)
(* order: one action per file.  Between two runs ingest.py may write raw    *)
(* files into CURRENTDIR: one action per call of appendnewinfo.             *)

\* processcurrentfiles is run MaxRuns times, at most MaxFailures files fail
MaxRuns == 2
MaxFailures == 1

CSVSUFFIX == ".csv"
CURRENTSUFFIX == "Current.csv"
LAGSOURCECOLS ==
    <<"DailyPct", "TR", "ATR7", "DayPositive", "ConsecutivePosNegDays",
      "OpentoHighPct", "OpentoLowPct">>

RECURSIVE WithColumns(_, _)
WithColumns(frame, names) ==
    IF names = <<>> THEN frame
    ELSE WithColumns(WithColumn(frame, Head(names)), Tail(names))

HasColumns(frame, names) == \A i \in 1..Len(names) : HasColumn(frame, names[i])

RECURSIVE addlagfeatures(_, _, _)
\* lines 21-25: each name is looked for in the frame as the loop has left it
addlagfeatures(frame, names, lag) ==
    IF names = <<>> THEN frame
    ELSE addlagfeatures(IF HasColumn(frame, Head(names))
                        THEN WithColumn(frame, Head(names) \o "Lag" \o ToString(lag))
                        ELSE frame,
                        Tail(names), lag)

\* df.drop(columns=[c])
DropColumn(frame, col) ==
    [frame EXCEPT !.columns = SelectSeq(@, LAMBDA c : c # col)]

\* lines 53-103: the columns of the processed frame
ProcessedFrame(frame) ==
    LET a == IF HasColumns(frame, <<"Open", "Close">>)
             THEN WithColumn(frame, "DailyPct") ELSE frame
        b == IF HasColumns(a, <<"High", "Low", "Open">>)
             THEN WithColumns(a, <<"TR", "ATR7">>) ELSE a
        c == IF HasColumn(b, "DailyPct")
             THEN WithColumns(b, <<"DayPositive", "ConsecutivePosNegDays">>) ELSE b
        d == WithColumns(c, <<"OpentoHighPct", "OpentoLowPct">>)
        e == addlagfeatures(d, LAGSOURCECOLS, 1)
        f == IF HasColumn(e, "Date")
             THEN WithColumns(e, <<"Year", "Week", "DayOfWeek">>) ELSE e
        g == WithColumns(f, <<"VWAPWeekly", "DistOpenVWAPpct", "PreviousClose", "OPG",
                              "CustomIndicator", "CustomIndicatorDiff">>)
    IN  DropColumn(DropColumn(g, "Year"), "Week")

\* lines 46 and 106
ProcessedName(file) == Replace(file, CSVSUFFIX) \o CURRENTPROCESSEDSUFFIX

\* line 40
ListedFiles(dir) == {f \in DOMAIN dir : EndsWith(f, CSVSUFFIX)}

\* lines 40-43: the listing, and the early return
FeatStart ==
    /\ pcFeat = "idle"
    /\ runs < MaxRuns
    /\ IF ListedFiles(currentdir) = {}
       THEN /\ featlog' = Append(featlog, "No current files found. Skipping.")
            /\ runs' = runs + 1
            /\ UNCHANGED <<pending, pcFeat>>
       ELSE /\ pending' = ListedFiles(currentdir)
            /\ pcFeat' = "loop"
            /\ UNCHANGED <<featlog, runs>>
    /\ unseen' = {}
    /\ UNCHANGED <<currentdir, rawnames, failures>>

\* lines 45-111: the body for one listed file
FeatBody ==
    /\ pcFeat = "loop"
    /\ \E file \in pending :
         /\ pending' = pending \ {file}
         /\ \/ \* something in the try block raises: caught and printed
               /\ failures < MaxFailures
               /\ failures' = failures + 1
               /\ featlog' = Append(featlog, "Error processing " \o Replace(file, CSVSUFFIX))
               /\ UNCHANGED currentdir
            \/ /\ currentdir' =
                    [f \in DOMAIN currentdir \cup {ProcessedName(file)} |->
                        IF f = ProcessedName(file) THEN ProcessedFrame(currentdir[file])
                        ELSE currentdir[f]]
               /\ featlog' = Append(featlog, "Created processed file: " \o ProcessedName(file))
               /\ UNCHANGED failures
    /\ UNCHANGED <<runs, pcFeat, rawnames, unseen>>

\* the loop of line 45 is over
FeatEnd ==
    /\ pcFeat = "loop"
    /\ pending = {}
    /\ pcFeat' = "idle"
    /\ runs' = runs + 1
    /\ UNCHANGED <<currentdir, pending, featlog, rawnames, unseen, failures>>

\* ingest.py lines 32-46: the frame appendnewinfo writes.  An existing file
\* gets the columns of schema it lacks, a new one has the columns of schema;
\* the row appended has every column of schema and adds none.
AppendedFrame(dir, path, schema) ==
    IF path \in DOMAIN dir THEN WithColumns(dir[path], schema) ELSE Frame(schema)

\* ingest.py main: the schema of its call
MainSchema ==
    <<"Date", "Open", "High", "Low", "Close", "Volume",
      "FeatureA", "FeatureB", "FeatureC", "SignalX">>
\* the basenames and schemas appendnewinfo is called with
IngestNames == {"DatasetA"}
IngestSchemas == {MainSchema, <<"Date", "Close">>}

\* ingest.py lines 28-48, called while no run of processcurrentfiles is on
AppendNewInfo ==
    /\ pcFeat = "idle"
    /\ \E b \in IngestNames, schema \in IngestSchemas :
         LET currentpath == b \o CURRENTSUFFIX
         IN  /\ currentdir' =
                  [f \in DOMAIN currentdir \cup {currentpath} |->
                      IF f = currentpath THEN AppendedFrame(currentdir, currentpath, schema)
                      ELSE currentdir[f]]
             /\ rawnames' = rawnames \cup {currentpath}
             /\ unseen' = unseen \cup {currentpath}
    /\ UNCHANGED <<pending, featlog, runs, pcFeat, failures>>

RawNames == {"DatasetACurrent.csv", "DatasetB.csv", "notes.txt"}
RawFrames ==
    {Frame(<<"Date", "Open", "High", "Low", "Close", "Volume">>),
     Frame(<<"Open", "Close">>)}

InitFeat ==
    /\ \E names \in SUBSET RawNames : currentdir \in [names -> RawFrames]
    /\ rawnames = DOMAIN currentdir /\ unseen = {}
    /\ pending = {} /\ featlog = <<>> /\ runs = 0 /\ pcFeat = "idle" /\ failures = 0
    /\ NoSearch /\ PredIdle /\ DiscIdle /\ CleanIdle /\ NormIdle

otherThanFeat == <<selVars, predVars, discVars, cleanVars, normVars>>

NextFeat ==
    \/ FeatStart /\ UNCHANGED otherThanFeat
    \/ FeatBody /\ UNCHANGED otherThanFeat
    \/ FeatEnd /\ UNCHANGED otherThanFeat
    \/ AppendNewInfo /\ UNCHANGED otherThanFeat

SpecFeat == InitFeat /\ [][NextFeat]_vars

(* Claims about processcurrentfiles. *)

\* C10: after any number of runs without failure over the same directory (no
\* raw file written since the last run listed it) it holds the raw files and
\* one processed file for each raw input, and nothing else.
C10_OneOutputPerInput ==
    (pcFeat = "idle" /\ runs >= 1 /\ failures = 0 /\ unseen = {}) =>
        DOMAIN currentdir =
            rawnames \cup {ProcessedName(f) : f \in {g \in rawnames : EndsWith(g, CSVSUFFIX)}}

====
